---- MODULE Spec2Model ----
(***************************************************************************)
(* The image asset pipeline of packages/astro/src/assets: the Vite plugin  *)
(* pair astro:assets / astro:assets:esm (load and renderChunk hooks, the    *)
(* dev server's /_image middleware) and the local image service; and the   *)
(* CheckServer of packages/astro/src/cli/check.                            *)
(*                                                                         *)
(* Text is a sequence of atoms.  "_" is one underscore, "NL" a line break, *)
(* Marker the 17 characters ASTRO_ASSET_IMAGE, an atom of Hash8 a run of   *)
(* exactly eight characters of [a-z0-9]; every other atom is a run of      *)
(* characters that holds no underscore, no line break and no such run.     *)
(***************************************************************************)
EXTENDS Integers, Sequences, FiniteSets, TLC

\* ------------------------------------------------------------------ bounds

\* Most pieces the bundler joins into one chunk.
MaxPieces == 4

\* ------------------------------------------------------------------ state

VARIABLES
    watchMode,     \* this.meta.watchMode
    sourcemap,     \* resolvedConfig.build.sourcemap
    phase,         \* the bundler's phase: "build" (modules load), "generate"
    pc,            \* where each module's load() call stands
    exports,       \* what each load() returned
    emitted,       \* the assets given to this.emitFile
    buildFailed,   \* a load() rejected
    chunk,         \* the pieces of the chunk being put together
    rendered,      \* what renderChunk returned for the chunk
    rerendered     \* what renderChunk returned for its own output

VARIABLES
    transformed    \* the last call of service.transform and what it did

VARIABLES
    image,     \* the last getImage call: its options and what it produced
    logs,      \* the dev server's error log
    serving,   \* the dev server is up
    parsed     \* what parseURL made of the last image's URL

VARIABLES
    astroImageService,   \* globalThis.astroImageService: which service is set
    requests             \* the dev server's requests: each call of the
                         \* middleware, its locals and what it did so far

VARIABLES
    checker    \* the CheckServer: where its pass stands and what it returned

VARIABLES
    disk,      \* the .astro files under the root
    watcher,   \* the CheckServer in watch mode: its fields, its pending
               \* timeouts, the file watcher's listeners
    passes     \* the calls of #checkAllFiles in watch mode, in start order

buildVars == <<watchMode, sourcemap, phase, pc, exports, emitted, buildFailed,
               chunk, rendered, rerendered>>
serviceVars == <<transformed>>
imageVars == <<image, logs, serving, parsed>>
devVars == <<astroImageService, requests>>
checkVars == <<checker>>
watchVars == <<disk, watcher, passes>>

vars == <<buildVars, serviceVars, imageVars, devVars, checkVars, watchVars>>

\* What a build, a call of the service, a page's image, a request to the dev
\* server, a check pass and the check command's watch mode leave alone.
nonBuildVars == <<serviceVars, imageVars, devVars, checkVars, watchVars>>
nonServiceVars == <<buildVars, imageVars, devVars, checkVars, watchVars>>
nonImageVars == <<buildVars, serviceVars, devVars, checkVars, watchVars>>
nonDevVars == <<buildVars, serviceVars, imageVars, checkVars, watchVars>>
nonCheckVars == <<buildVars, serviceVars, imageVars, devVars, watchVars>>
nonWatchVars == <<buildVars, serviceVars, imageVars, devVars, checkVars>>

\* ------------------------------------------------------------- text atoms

Marker == "ASTRO_ASSET_IMAGE"

\* Reference ids this.emitFile can hand out.
Handles == {"h1", "h2"}

\* The content hash the bundler puts into a final file name.
ContentHash == "d"

\* [a-z\d]{8}
Hash8 == Handles \cup {ContentHash}

Min(S) == CHOOSE x \in S : \A y \in S : x <= y

\* `__ASTRO_ASSET_IMAGE__${handle}__`
TokenText(handle) == <<"_", "_", Marker, "_", "_", handle, "_", "_">>

\* The fixed part of assetUrlRE, /__ASTRO_ASSET_IMAGE__([a-z\d]{8})__/, at i.
HeadAt(code, i) ==
    /\ i >= 1
    /\ i + 7 <= Len(code)
    /\ code[i] = "_" /\ code[i + 1] = "_"
    /\ code[i + 2] = Marker
    /\ code[i + 3] = "_" /\ code[i + 4] = "_"
    /\ code[i + 5] \in Hash8
    /\ code[i + 6] = "_" /\ code[i + 7] = "_"

\* The lengths k at which the lazy (.*?) of (?:_(.*?)__)? can stop, the group
\* starting at g: k atoms none of which is a line break, then two underscores.
PostfixStops(code, g) ==
    { k \in 0..Len(code) :
        /\ g + k + 2 <= Len(code)
        /\ code[g + k + 1] = "_" /\ code[g + k + 2] = "_"
        /\ \A j \in 1..k : code[g + j] # "NL" }

NoMatch == [found |-> FALSE, index |-> 0, length |-> 0, hash |-> "", postfix |-> <<>>]

\* One attempt of assetUrlRE at index i: the head, then the optional group,
\* which is greedy (taken when it can match) with a lazy body (the first stop).
MatchAt(code, i) ==
    IF ~HeadAt(code, i) THEN NoMatch
    ELSE LET g == i + 8
             grouped == /\ g <= Len(code)
                        /\ code[g] = "_"
                        /\ PostfixStops(code, g) # {}
         IN  IF grouped
             THEN LET k == Min(PostfixStops(code, g))
                  IN  [found |-> TRUE, index |-> i, length |-> 8 + 1 + k + 2,
                       hash |-> code[i + 5],
                       postfix |-> SubSeq(code, g + 1, g + k)]
             ELSE [found |-> TRUE, index |-> i, length |-> 8,
                   hash |-> code[i + 5], postfix |-> <<>>]

\* assetUrlRE.exec(code) with the g flag: the leftmost match at or after
\* lastIndex, or no match.
RegexExec(code, lastIndex) ==
    LET at == { i \in lastIndex..Len(code) : MatchAt(code, i).found }
    IN  IF at = {} THEN NoMatch ELSE MatchAt(code, Min(at))

\* A faulty variant of ExecAll: an if in place of the while, the first match only.
ExecFirst(code, lastIndex) ==
    LET match == RegexExec(code, lastIndex)
    IN  IF ~match.found THEN <<>> ELSE <<match>>

\* The while loop of renderChunk: every match exec finds, in order.
RECURSIVE ExecAll(_, _)
ExecAll(code, lastIndex) ==
    LET match == RegexExec(code, lastIndex)
    IN  IF ~match.found THEN <<>>
        ELSE <<match>> \o ExecAll(code, match.index + match.length)

\* ------------------------------------------------------- paths and files

Max(S) == CHOOSE x \in S : \A y \in S : x >= y

\* Module ids are absolute paths: the directory, then the base name's atoms.
PenguinPng == <<"/src/", "penguin", ".", "png">>
MyImgJpgJpg == <<"/src/", "my", "_", "_", "img", ".", "jpg", ".", "jpg">>
BrokenGif == <<"/src/", "broken", ".", "gif">>
NotesTxt == <<"/src/", "notes", ".", "txt">>

ModuleIds == {PenguinPng, MyImgJpgJpg, BrokenGif, NotesTxt}

\* /\.(heic|heif|avif|jpeg|jpg|png|tiff|webp|gif)$/
ImageExtensions == {"heic", "heif", "avif", "jpeg", "jpg", "png", "tiff", "webp", "gif"}

IsImageId(id) ==
    /\ Len(id) >= 2
    /\ id[Len(id) - 1] = "."
    /\ id[Len(id)] \in ImageExtensions

NoMeta == [ok |-> FALSE, width |-> 0, height |-> 0, format |-> ""]

\* imageMetadata(url): the header's width, height and format, or undefined
\* when the bytes are not a recognised image.
imageMetadata(id) ==
    CASE id = PenguinPng -> [ok |-> TRUE, width |-> 12, height |-> 8, format |-> "png"]
      [] id = MyImgJpgJpg -> [ok |-> TRUE, width |-> 3, height |-> 100, format |-> "jpg"]
      [] OTHER -> NoMeta

\* fs.readFile(url): the raw bytes of the file.
FileBytes(id) ==
    CASE id = PenguinPng -> "bytes-penguin"
      [] id = MyImgJpgJpg -> "bytes-myimg"
      [] id = BrokenGif -> "bytes-broken"
      [] OTHER -> "bytes-notes"

\* The base name's atoms: the path without its directory.
BaseAtoms(pathname) == Tail(pathname)

\* path.extname: from the last "." of the base name, "" when there is none
\* or when it is the base name's first character.
extname(pathname) ==
    LET b == BaseAtoms(pathname)
        dots == { i \in 2..Len(b) : b[i] = "." }
    IN  IF dots = {} THEN <<>> ELSE SubSeq(b, Max(dots), Len(b))

EndsWith(s, suffix) ==
    /\ Len(suffix) <= Len(s)
    /\ SubSeq(s, Len(s) - Len(suffix) + 1, Len(s)) = suffix

\* path.basename(pathname, suffix): the base name, without suffix when it
\* ends with it and is not the suffix itself.
basename(pathname, suffix) ==
    LET b == BaseAtoms(pathname)
    IN  IF suffix # <<>> /\ EndsWith(b, suffix) /\ b # suffix
        THEN SubSeq(b, 1, Len(b) - Len(suffix))
        ELSE b

DigitChar == <<"0", "1", "2", "3", "4", "5", "6", "7", "8", "9">>

\* Number.prototype.toString of a non-negative integer.
RECURSIVE NumberToString(_)
NumberToString(n) ==
    IF n < 10 THEN <<DigitChar[n + 1]>>
    ELSE NumberToString(n \div 10) \o <<DigitChar[(n % 10) + 1]>>

\* url.searchParams as text: k=v joined by "&".
RECURSIVE SearchText(_)
SearchText(params) ==
    IF params = <<>> THEN <<>>
    ELSE (IF Len(params) > 1 THEN SearchText(SubSeq(params, 1, Len(params) - 1)) \o <<"&">>
          ELSE <<>>)
         \o <<params[Len(params)][1], "=">> \o params[Len(params)][2]

\* URL.prototype.toString
URLToString(url) ==
    <<url.protocol, "//">> \o url.pathname
    \o (IF url.searchParams = <<>> THEN <<>> ELSE <<"?">> \o SearchText(url.searchParams))

\* pathToFileURL(id)
pathToFileURL(id) == [protocol |-> "file:", pathname |-> id, searchParams |-> <<>>]

\* searchParams.append(name, value)
SearchAppend(url, name, value) ==
    [url EXCEPT !.searchParams = Append(@, <<name, value>>)]

\* ------------------------------------------------------------ build state

\* resolvedConfig.base
Base == <<"/">>

\* load() returned undefined, or has not returned.
NoExport == [default |-> FALSE, src |-> <<>>, width |-> 0, height |-> 0, format |-> ""]

\* A faulty variant of ExportDefault: width and height change places.
ExportDefaultSwapped(meta, src) ==
    [default |-> TRUE, src |-> src, width |-> meta.height, height |-> meta.width,
     format |-> meta.format]

\* `export default ${JSON.stringify(meta)}`
ExportDefault(meta, src) ==
    [default |-> TRUE, src |-> src, width |-> meta.width, height |-> meta.height,
     format |-> meta.format]

NotRendered == [state |-> "none", code |-> <<>>, map |-> "null", edits |-> <<>>]
ReturnNull == [state |-> "null", code |-> <<>>, map |-> "null", edits |-> <<>>]
Threw == [state |-> "threw", code |-> <<>>, map |-> "null", edits |-> <<>>]

EmittedHandles == { a.handle : a \in emitted }

AssetOf(handle) == CHOOSE a \in emitted : a.handle = handle

\* this.getFileName(hash): the final name the bundler gave the asset,
\* assets/[name].[hash][extname].
getFileName(hash) ==
    LET name == AssetOf(hash).name
        ext == extname(<<"">> \o name)
    IN  <<"assets/">> \o SubSeq(name, 1, Len(name) - Len(ext))
        \o <<".", ContentHash>> \o ext

\* A faulty variant of OutputFilepath: the captured postfix is dropped.
OutputFilepathNoPostfix(match) == Base \o getFileName(match.hash)

\* resolvedConfig.base + file + postfix
OutputFilepath(match) == Base \o getFileName(match.hash) \o match.postfix

\* s.toString() after s.overwrite(match.index, match.index + full.length,
\* outputFilepath) for every match: the code from position `from` on, with
\* the matches from the k-th on overwritten.
RECURSIVE Overwritten(_, _, _, _)
Overwritten(code, matches, k, from) ==
    IF k > Len(matches) THEN SubSeq(code, from, Len(code))
    ELSE SubSeq(code, from, matches[k].index - 1)
         \o OutputFilepath(matches[k])
         \o Overwritten(code, matches, k + 1, matches[k].index + matches[k].length)

\* A faulty variant of renderChunk: the MagicString is made before the loop, so a
\* chunk without a token is returned rewritten too.
renderChunkEager(code) ==
    LET matches == ExecAll(code, 1)
    IN  IF \E k \in 1..Len(matches) : matches[k].hash \notin EmittedHandles
        THEN Threw
        ELSE [state |-> "code",
              code |-> Overwritten(code, matches, 1, 1),
              map |-> IF sourcemap THEN "map" ELSE "null",
              edits |-> matches]

\* renderChunk(code)
renderChunk(code) ==
    LET matches == ExecAll(code, 1)
    IN  IF matches = <<>> THEN ReturnNull
        ELSE IF \E k \in 1..Len(matches) : matches[k].hash \notin EmittedHandles
        THEN Threw
        ELSE [state |-> "code",
              code |-> Overwritten(code, matches, 1, 1),
              map |-> IF sourcemap THEN "map" ELSE "null",
              edits |-> matches]

BuildInit ==
    /\ watchMode \in BOOLEAN
    /\ sourcemap \in BOOLEAN
    /\ phase = "build"
    /\ pc = [m \in ModuleIds |-> "idle"]
    /\ exports = [m \in ModuleIds |-> NoExport]
    /\ emitted = {}
    /\ buildFailed = FALSE
    /\ chunk = <<>>
    /\ rendered = NotRendered
    /\ rerendered = NotRendered

\* load(id), to its first await: the extension test, then imageMetadata(url)
\* is awaited.  An id that fails the test returns undefined at once.
LoadStart(m) ==
    /\ phase = "build"
    /\ pc[m] = "idle"
    /\ pc' = [pc EXCEPT ![m] = IF IsImageId(m) THEN "meta" ELSE "done"]
    /\ UNCHANGED <<watchMode, sourcemap, phase, exports, emitted, buildFailed,
                   chunk, rendered, rerendered>>
    /\ UNCHANGED nonBuildVars

\* A faulty variant of WatchSrc: the original format is not passed on.
WatchSrcNoFormat(m, meta) ==
    URLToString(
        SearchAppend(
            SearchAppend(pathToFileURL(m), "origWidth", NumberToString(meta.width)),
            "origHeight", NumberToString(meta.height)))

\* The dev branch of load(): the module's file URL with origWidth, origHeight
\* and origFormat appended.
WatchSrc(m, meta) ==
    URLToString(
        SearchAppend(
            SearchAppend(
                SearchAppend(pathToFileURL(m), "origWidth", NumberToString(meta.width)),
                "origHeight", NumberToString(meta.height)),
            "origFormat", <<meta.format>>))

\* A faulty variant of AfterMeta: a file whose metadata cannot be read rejects.
AfterMetaThrows(meta) ==
    IF ~meta.ok THEN "threw"
    ELSE IF ~watchMode THEN "read"
    ELSE "done"

\* Where load() stands once imageMetadata has answered: returned (no
\* metadata, or the dev branch, which awaits nothing more) or awaiting
\* fs.readFile (the build branch).
AfterMeta(meta) ==
    IF ~meta.ok THEN "done"
    ELSE IF ~watchMode THEN "read"
    ELSE "done"

\* load(id), from imageMetadata's answer to the next await or the return.
LoadMeta(m) ==
    /\ pc[m] = "meta"
    /\ LET meta == imageMetadata(m)
       IN  /\ pc' = [pc EXCEPT ![m] = AfterMeta(meta)]
           /\ IF meta.ok /\ watchMode
              THEN exports' = [exports EXCEPT ![m] = ExportDefault(meta, WatchSrc(m, meta))]
              ELSE UNCHANGED exports
    /\ UNCHANGED <<watchMode, sourcemap, phase, emitted, buildFailed,
                   chunk, rendered, rerendered>>
    /\ UNCHANGED nonBuildVars

\* The name given to emitFile: path.basename(pathname,
\* path.extname(pathname) + `.${meta.format}`).
EmitName(m, meta) == basename(m, extname(m) \o <<".", meta.format>>)

\* A faulty variant of BuildSrc: the token is built from something other than the
\* reference id emitFile answered with.
BuildSrcNotTheHandle(handle) == TokenText(ContentHash)

\* The src load() embeds for the asset emitFile answered with `handle`.
BuildSrc(handle) == TokenText(handle)

\* load(id), the build branch once fs.readFile has answered: emitFile, the
\* placeholder as src, the return.
LoadEmit(m) ==
    /\ pc[m] = "read"
    /\ \E handle \in Handles \ EmittedHandles :
          LET meta == imageMetadata(m)
          IN  /\ emitted' = emitted \cup
                    {[handle |-> handle, name |-> EmitName(m, meta),
                      source |-> FileBytes(m), type |-> "asset", module |-> m]}
              /\ exports' = [exports EXCEPT ![m] = ExportDefault(meta, BuildSrc(handle))]
    /\ pc' = [pc EXCEPT ![m] = "done"]
    /\ UNCHANGED <<watchMode, sourcemap, phase, buildFailed, chunk, rendered, rerendered>>
    /\ UNCHANGED nonBuildVars

\* fs.readFile rejects (the file is gone): load() rejects and the build fails.
LoadReadFails(m) ==
    /\ pc[m] = "read"
    /\ pc' = [pc EXCEPT ![m] = "threw"]
    /\ buildFailed' = TRUE
    /\ UNCHANGED <<watchMode, sourcemap, phase, exports, emitted, chunk, rendered, rerendered>>
    /\ UNCHANGED nonBuildVars

\* The bundler ends the build phase once every load() has returned.
BeginGenerate ==
    /\ phase = "build"
    /\ ~buildFailed
    /\ \A m \in ModuleIds : pc[m] = "done"
    /\ phase' = "generate"
    /\ UNCHANGED <<watchMode, sourcemap, pc, exports, emitted, buildFailed,
                   chunk, rendered, rerendered>>
    /\ UNCHANGED nonBuildVars

\* What a chunk is made of: the src of the loaded image modules, and code
\* around them.
FreePieces == {<<"_">>, <<"_", "_">>, <<"x">>, <<"NL">>, <<Marker>>, <<"_", "?v", "_", "_">>}

ModulePieces == { exports[m].src : m \in { x \in ModuleIds : exports[x].default } }

\* The bundler puts the chunk together.
AddPiece ==
    /\ phase = "generate"
    /\ rendered = NotRendered
    /\ Len(chunk) < MaxPieces
    /\ \E piece \in FreePieces \cup ModulePieces :
          chunk' = Append(chunk, piece)
    /\ UNCHANGED <<watchMode, sourcemap, phase, pc, exports, emitted, buildFailed,
                   rendered, rerendered>>
    /\ UNCHANGED nonBuildVars

\* The chunk's code: its pieces joined.
RECURSIVE Joined(_)
Joined(pieces) ==
    IF pieces = <<>> THEN <<>> ELSE Head(pieces) \o Joined(Tail(pieces))

ChunkCode == Joined(chunk)

\* The bundler calls renderChunk with the chunk's code.
RenderChunk ==
    /\ phase = "generate"
    /\ rendered = NotRendered
    /\ rendered' = renderChunk(ChunkCode)
    /\ UNCHANGED <<watchMode, sourcemap, phase, pc, exports, emitted, buildFailed,
                   chunk, rerendered>>
    /\ UNCHANGED nonBuildVars

\* The code the bundler holds after renderChunk: the returned code, or the
\* chunk's own when null was returned.
CodeAfter(code, result) == IF result.state = "code" THEN result.code ELSE code

\* renderChunk called again, with the code it left.
RenderAgain ==
    /\ rendered.state \in {"null", "code"}
    /\ rerendered = NotRendered
    /\ rerendered' = renderChunk(CodeAfter(ChunkCode, rendered))
    /\ UNCHANGED <<watchMode, sourcemap, phase, pc, exports, emitted, buildFailed,
                   chunk, rendered>>
    /\ UNCHANGED nonBuildVars

\* ------------------------------------------------ the local image service

\* Largest width or height, in pixels, a transform asks for.
MaxDim == 3

\* JavaScript values: undefined, a number, a string (its atoms).
Undefined == [tag |-> "undefined", n |-> 0, s |-> <<>>]
Num(k) == [tag |-> "number", n |-> k, s |-> <<>>]
Str(atoms) == [tag |-> "string", n |-> 0, s |-> atoms]

\* ToBoolean
Truthy(v) ==
    CASE v.tag = "number" -> v.n # 0
      [] v.tag = "string" -> v.s # <<>>
      [] OTHER -> FALSE

\* ImageTransform.width / height: unset, or a number of pixels.
Dimensions == {Undefined} \cup { Num(k) : k \in 1..MaxDim }

\* ImageTransform.format
OutputFormats == {Undefined, Str(<<"webp">>), Str(<<"png">>)}

\* ImageTransform.quality: a preset or a number.
Qualities == {Undefined, Str(<<"low">>), Num(80)}

\* A faulty variant of transform: height is looked at first, so a transform
\* with both is resized by height.
transformHeightFirst(inputBuffer, t) ==
    LET format == IF ~Truthy(t.format) THEN Str(<<"webp">>) ELSE t.format
        operations ==
            IF Truthy(t.height)
            THEN <<[type |-> "resize", width |-> Undefined, height |-> t.height]>>
            ELSE IF Truthy(t.width)
            THEN <<[type |-> "resize", width |-> t.width, height |-> Undefined]>>
            ELSE <<>>
        data == [input |-> inputBuffer, operations |-> operations,
                 format |-> format, quality |-> t.quality]
    IN  [data |-> data, format |-> format]

\* A faulty variant of transform: the format asked for is ignored and every
\* image is encoded as webp.
transformAlwaysWebp(inputBuffer, t) ==
    LET format == Str(<<"webp">>)
        operations ==
            IF Truthy(t.height) /\ ~Truthy(t.width)
            THEN <<[type |-> "resize", width |-> Undefined, height |-> t.height]>>
            ELSE IF Truthy(t.width)
            THEN <<[type |-> "resize", width |-> t.width, height |-> Undefined]>>
            ELSE <<>>
        data == [input |-> inputBuffer, operations |-> operations,
                 format |-> format, quality |-> t.quality]
    IN  [data |-> data, format |-> format]

\* The operations and the encoder call of service.transform(inputBuffer,
\* transform), and its result.  processBuffer's bytes are its arguments.
transform(inputBuffer, t) ==
    LET format == IF ~Truthy(t.format) THEN Str(<<"webp">>) ELSE t.format
        operations ==
            IF Truthy(t.height) /\ ~Truthy(t.width)
            THEN <<[type |-> "resize", width |-> Undefined, height |-> t.height]>>
            ELSE IF Truthy(t.width)
            THEN <<[type |-> "resize", width |-> t.width, height |-> Undefined]>>
            ELSE <<>>
        data == [input |-> inputBuffer, operations |-> operations,
                 format |-> format, quality |-> t.quality]
    IN  [data |-> data, format |-> format]

NotTransformed == [called |-> FALSE]

\* One call of service.transform.
Transform ==
    /\ \E inputBuffer \in {FileBytes(PenguinPng), FileBytes(MyImgJpgJpg)},
          width \in Dimensions, height \in Dimensions,
          format \in OutputFormats, quality \in Qualities :
          LET t == [src |-> Str(PenguinPng),
                    width |-> width, height |-> height,
                    format |-> format, quality |-> quality]
          IN  transformed' = [called |-> TRUE, inputBuffer |-> inputBuffer,
                              transform |-> t, result |-> transform(inputBuffer, t)]
    /\ UNCHANGED nonServiceVars

\* ------------------------------------------- getImage and the URL codec

\* Most errors the dev server's log holds.
MaxLogs == 2

\* The src of an <Image>: an ESM-imported image (the default export of its
\* module, as load() built it in dev or in a build) or a remote URL.
LocalSources ==
    { [remote |-> FALSE, src |-> WatchSrc(m, imageMetadata(m)),
       width |-> imageMetadata(m).width, height |-> imageMetadata(m).height,
       format |-> imageMetadata(m).format] : m \in {PenguinPng, MyImgJpgJpg} }

RemoteSources ==
    { [remote |-> TRUE, src |-> <<"https:", "//", "x", "/", "y", ".", "png">>,
       width |-> 0, height |-> 0, format |-> ""] }

ImageOptions ==
    [src : LocalSources \cup RemoteSources,
     width : Dimensions, height : Dimensions,
     format : OutputFormats, quality : Qualities,
     alt : {Str(<<"a penguin">>), Str(<<"fred">>)}]

\* The messages of the errors, as text.
NoWidthNoHeight == <<"For remote images, ", "width and height are required", ".">>
NoHeight == <<"For remote images, ", "height is required", ".">>
NoWidth == <<"For remote images, ", "width is required", ".">>

\* A faulty variant of ValidateOptions: one message for every missing
\* dimension.
ValidateOptionsOneMessage(options) ==
    IF ~options.src.remote THEN <<>>
    ELSE IF ~Truthy(options.width) \/ ~Truthy(options.height) THEN NoWidthNoHeight
    ELSE <<>>

\* The check getImage makes before any URL is built: the empty text when
\* the options pass, the error's message when they do not.
ValidateOptions(options) ==
    IF ~options.src.remote THEN <<>>
    ELSE IF ~Truthy(options.width) /\ ~Truthy(options.height) THEN NoWidthNoHeight
    ELSE IF ~Truthy(options.height) THEN NoHeight
    ELSE IF ~Truthy(options.width) THEN NoWidth
    ELSE <<>>

\* The characters a query value cannot hold as they are.
Escaped(atom) ==
    CASE atom = "?" -> "%3F"
      [] atom = "&" -> "%26"
      [] atom = "=" -> "%3D"
      [] OTHER -> atom

Unescaped(atom) ==
    CASE atom = "%3F" -> "?"
      [] atom = "%26" -> "&"
      [] atom = "%3D" -> "="
      [] OTHER -> atom

\* A faulty variant of EncodeValue: the value is written as it is.
EncodeValueRaw(text) == text

\* A query value as the query string holds it, and back.
EncodeValue(text) == [i \in 1..Len(text) |-> Escaped(text[i])]
DecodeValue(text) == [i \in 1..Len(text) |-> Unescaped(text[i])]

\* String(value) of a number or a string.
ToText(v) == IF v.tag = "number" THEN NumberToString(v.n) ELSE v.s

\* The query parameters of a transform, in the codec's fixed order; a field
\* that is unset gets none.
QueryParams(options) ==
    <<<<"href", EncodeValue(options.src.src)>>>>
    \o (IF Truthy(options.width) THEN <<<<"w", EncodeValue(ToText(options.width))>>>> ELSE <<>>)
    \o (IF Truthy(options.height) THEN <<<<"h", EncodeValue(ToText(options.height))>>>> ELSE <<>>)
    \o (IF Truthy(options.quality) THEN <<<<"q", EncodeValue(ToText(options.quality))>>>> ELSE <<>>)
    \o (IF Truthy(options.format) THEN <<<<"f", EncodeValue(ToText(options.format))>>>> ELSE <<>>)

ImageEndpoint == "/_image"

\* service.getURL(options): the source itself for a remote image, the dev
\* endpoint and the encoded transform for a local one.
getURL(options) ==
    IF options.src.remote THEN options.src.src
    ELSE <<ImageEndpoint, "?">> \o SearchText(QueryParams(options))

\* The places of atom `sep` in text.
Places(text, sep) == { i \in 1..Len(text) : text[i] = sep }

\* text split at every `sep`.
RECURSIVE Split(_, _)
Split(text, sep) ==
    IF Places(text, sep) = {} THEN <<text>>
    ELSE LET i == Min(Places(text, sep))
         IN  <<SubSeq(text, 1, i - 1)>> \o Split(SubSeq(text, i + 1, Len(text)), sep)

\* new URL(...).searchParams: the name and decoded value of every k=v of the
\* text after the first "?".
SearchParams(url) ==
    IF Places(url, "?") = {} THEN <<>>
    ELSE LET query == SubSeq(url, Min(Places(url, "?")) + 1, Len(url))
             parts == Split(query, "&")
             kv(part) == IF Places(part, "=") = {} THEN <<part, <<>>>>
                         ELSE LET e == Min(Places(part, "="))
                              IN  <<SubSeq(part, 1, e - 1),
                                    DecodeValue(SubSeq(part, e + 1, Len(part)))>>
         IN  [i \in 1..Len(parts) |-> kv(parts[i])]

Has(params, name) == \E i \in 1..Len(params) : params[i][1] = <<name>>

\* searchParams.get(name): the first value under the name.
Get(params, name) ==
    params[Min({ i \in 1..Len(params) : params[i][1] = <<name>> })][2]

IsDigits(text) ==
    /\ text # <<>>
    /\ \A i \in 1..Len(text) : \E d \in 1..10 : DigitChar[d] = text[i]

DigitValue(atom) == (CHOOSE d \in 1..10 : DigitChar[d] = atom) - 1

\* parseInt of a run of digits.
RECURSIVE parseInt(_)
parseInt(text) ==
    IF Len(text) = 1 THEN DigitValue(text[1])
    ELSE 10 * parseInt(SubSeq(text, 1, Len(text) - 1)) + DigitValue(text[Len(text)])

NotParsed == [called |-> FALSE, defined |-> FALSE, src |-> <<>>, width |-> Undefined,
              height |-> Undefined, format |-> Undefined, quality |-> Undefined]

\* service.parseURL(url): the transform the URL's query encodes, undefined
\* when it names no source.
parseURL(url) ==
    LET params == SearchParams(url)
        number(name) == IF Has(params, name) /\ IsDigits(Get(params, name))
                        THEN Num(parseInt(Get(params, name))) ELSE Undefined
    IN  IF ~Has(params, "href") THEN [NotParsed EXCEPT !.called = TRUE]
        ELSE [called |-> TRUE, defined |-> TRUE,
              src |-> Get(params, "href"),
              width |-> number("w"),
              height |-> number("h"),
              format |-> IF Has(params, "f") THEN Str(Get(params, "f")) ELSE Undefined,
              quality |-> IF ~Has(params, "q") THEN Undefined
                          ELSE IF IsDigits(Get(params, "q")) THEN number("q")
                          ELSE Str(Get(params, "q"))]

NoImage == [called |-> FALSE, omitted |-> FALSE, src |-> <<>>,
            options |-> CHOOSE o \in ImageOptions : TRUE]

\* getImage(options), as a page renders an <Image>: options that fail the
\* check are logged as one error and the image is left out of the page; the
\* others get their src from the service.
GetImage ==
    /\ ~image.called
    /\ Len(logs) < MaxLogs
    /\ \E options \in ImageOptions :
          LET message == ValidateOptions(options)
          IN  IF message # <<>>
              THEN /\ logs' = Append(logs, [level |-> "error", message |-> message])
                   /\ image' = [called |-> TRUE, omitted |-> TRUE, src |-> <<>>,
                                options |-> options]
              ELSE /\ logs' = logs
                   /\ image' = [called |-> TRUE, omitted |-> FALSE,
                                src |-> getURL(options), options |-> options]
    /\ UNCHANGED <<serving, parsed>>
    /\ UNCHANGED nonImageVars

\* The dev server is asked for the image's URL and has the service parse it.
ParseURL ==
    /\ image.called
    /\ ~image.omitted
    /\ image.src # <<>>
    /\ image.src[1] = ImageEndpoint
    /\ ~parsed.called
    /\ parsed' = parseURL(image.src)
    /\ UNCHANGED <<image, logs, serving>>
    /\ UNCHANGED nonImageVars

\* The page is sent; the next one renders its own image.
PageDone ==
    /\ image.called
    /\ image' = NoImage
    /\ parsed' = NotParsed
    /\ UNCHANGED <<logs, serving>>
    /\ UNCHANGED nonImageVars

\* ------------------------------------------------ the dev server's responder

\* Most requests the dev server is handed.
MaxRequests == 2

RequestIds == 1..MaxRequests

\* What globalThis.astroImageService can be: the local service of this
\* package, a local service whose parseURL finds no transform in any URL, and
\* a service that is not local.
Services == {"local", "localNoTransform", "external"}

isLocalService(s) == s # "external"

\* A path no file is at.
GonePng == <<"/src/", "gone", ".", "png">>

\* A request URL: a path, then the query with href first.
ImageURL(path, href, params) ==
    path \o <<"?">> \o SearchText(<<<<"href", EncodeValue(href)>>>> \o params)

\* The URLs the dev server is asked for: two transforms of one imported
\* image, an image of a Markdown page (no original size in its href), a file
\* that is no image, a file that is gone, no href, a path with an extension,
\* a page, and an imported file whose bytes no codec reads.
RequestURLs ==
    { ImageURL(<<ImageEndpoint>>, WatchSrc(PenguinPng, imageMetadata(PenguinPng)),
               <<<<"w", <<"2">>>>, <<"f", <<"webp">>>>>>),
      ImageURL(<<ImageEndpoint>>, WatchSrc(PenguinPng, imageMetadata(PenguinPng)),
               <<<<"h", <<"3">>>>, <<"f", <<"png">>>>>>),
      ImageURL(<<ImageEndpoint>>, MyImgJpgJpg, <<>>),
      ImageURL(<<ImageEndpoint>>, BrokenGif, <<>>),
      ImageURL(<<ImageEndpoint>>, GonePng, <<>>),
      <<ImageEndpoint, "?", "w", "=", "3">>,
      ImageURL(<<ImageEndpoint, ".", "png">>, MyImgJpgJpg, <<<<"f", <<"webp">>>>>>),
      <<"/about">>,
      ImageURL(<<ImageEndpoint>>,
               WatchSrc(BrokenGif, [ok |-> TRUE, width |-> 1, height |-> 1, format |-> "gif"]),
               <<<<"w", <<"2">>>>>>) }

\* req.url?.startsWith('/_image')
StartsWithImage(url) == url # <<>> /\ url[1] = ImageEndpoint

\* new URL(text, 'file:'): the path and the query of a path or of a file: URL.
NewURL(text) ==
    LET rest == IF Len(text) >= 2 /\ text[1] = "file:" /\ text[2] = "//"
                THEN SubSeq(text, 3, Len(text)) ELSE text
    IN  [pathname |-> IF Places(rest, "?") = {} THEN rest
                      ELSE SubSeq(rest, 1, Min(Places(rest, "?")) - 1),
         searchParams |-> SearchParams(rest)]

\* url.searchParams.get('href'): the empty text stands for null as well.
Href(url) ==
    LET params == NewURL(url).searchParams
    IN  IF Has(params, "href") THEN Get(params, "href") ELSE <<>>

\* fs.readFile resolves for the files on disk.
OnDisk(pathname) == pathname \in ModuleIds

\* getOrigQueryParams(params): the original size and format a dev import put
\* in its URL, undefined when one of the three is missing.
getOrigQueryParams(params) ==
    IF /\ Has(params, "origWidth") /\ Get(params, "origWidth") # <<>>
       /\ Has(params, "origHeight") /\ Get(params, "origHeight") # <<>>
       /\ Has(params, "origFormat") /\ Get(params, "origFormat") # <<>>
    THEN [ok |-> TRUE,
          width |-> IF IsDigits(Get(params, "origWidth"))
                    THEN parseInt(Get(params, "origWidth")) ELSE 0,
          height |-> IF IsDigits(Get(params, "origHeight"))
                     THEN parseInt(Get(params, "origHeight")) ELSE 0,
          format |-> Get(params, "origFormat")[1]]
    ELSE NoMeta

\* mime.getType(path): the type of the extension after the last "." of the
\* path, null (the empty text) when there is no dot or the type is unknown.
MimeTypes ==
    [ext \in {"png", "jpg", "jpeg", "webp", "gif", "avif"} |->
        <<"image/", IF ext = "jpg" THEN "jpeg" ELSE ext>>]

getType(path) ==
    LET dots == { i \in 2..Len(path) - 1 : path[i] = "." }
    IN  IF dots = {} THEN <<>>
        ELSE LET ext == path[Max(dots) + 1]
             IN  IF Max(dots) + 1 = Len(path) /\ ext \in DOMAIN MimeTypes
                 THEN MimeTypes[ext] ELSE <<>>

\* `${value}` of a template.
TemplateText(v) == IF v.tag = "undefined" THEN <<"undefined">> ELSE ToText(v)

\* The encoders of processBuffer.
Encoders == {"avif", "jpeg", "jpg", "png", "webp"}

\* processBuffer throws on bytes it cannot decode and on a format it has no
\* encoder for.
processBufferThrows(inputBuffer, format) ==
    \/ inputBuffer = FileBytes(BrokenGif)
    \/ inputBuffer = FileBytes(NotesTxt)
    \/ format.tag # "string"
    \/ Len(format.s) # 1
    \/ format.s[1] \notin Encoders

\* A Buffer: a file's bytes or what the encoder made.
NoOutput == [input |-> "", operations |-> <<>>, format |-> Undefined, quality |-> Undefined]
NoBuffer == [kind |-> "none", file |-> "", out |-> NoOutput]
FileBuffer(bytes) == [kind |-> "file", file |-> bytes, out |-> NoOutput]
EncodedBuffer(out) == [kind |-> "encoded", file |-> "", out |-> out]

\* One call of the middleware: req.url, the handler's locals (file, meta,
\* transform, data, format), res (statusCode, headers, what was piped to it)
\* and what the call did: files read, calls of imageMetadata, parseURL and
\* transform, calls of next, and the await that rejected, if one did.
NoRequest ==
    [pc |-> "idle", url |-> <<>>,
     file |-> "", meta |-> NoMeta, transform |-> NotParsed,
     data |-> NoBuffer, format |-> Undefined,
     statusCode |-> 200, headers |-> <<>>, body |-> NoBuffer, responses |-> 0,
     reads |-> 0, metadataCalls |-> 0, parseCalls |-> 0, transformCalls |-> 0,
     nextCalls |-> 0, threw |-> ""]

\* return next()
CallNext(r) == [r EXCEPT !.pc = "done", !.nextCalls = @ + 1]

\* An await rejects: the handler's promise rejects and the call is over.
Reject(r, where) == [r EXCEPT !.pc = "done", !.threw = where]

\* The value of the Content-Type header.
ContentType(url, format) ==
    IF getType(NewURL(url).pathname) # <<>> THEN getType(NewURL(url).pathname)
    ELSE <<"image/">> \o TemplateText(format)

CacheControl == <<"Cache-Control", <<"max-age=360000">>>>

\* A faulty variant of Respond: no Cache-Control header.
RespondNoCacheControl(r, data, format) ==
    [r EXCEPT !.pc = "done", !.data = data, !.format = format,
              !.headers = <<<<"Content-Type", ContentType(r.url, format)>>>>,
              !.body = data, !.responses = @ + 1]

\* The two headers are set and the data is piped to res.
Respond(r, data, format) ==
    [r EXCEPT !.pc = "done", !.data = data, !.format = format,
              !.headers = <<<<"Content-Type", ContentType(r.url, format)>>, CacheControl>>,
              !.body = data, !.responses = @ + 1]

\* A faulty variant of Middleware: a request with no href is looked up on
\* disk like the others.
MiddlewareNoHrefCheck(r) ==
    IF ~StartsWithImage(r.url) THEN CallNext(r)
    ELSE IF ~isLocalService(astroImageService) THEN CallNext(r)
    ELSE [r EXCEPT !.pc = "reading", !.reads = @ + 1]

\* The middleware up to its first await: a request that is not for the
\* endpoint, or while the service is not local, or without href, goes to the
\* next handler; for the others the file is asked for.
Middleware(r) ==
    IF ~StartsWithImage(r.url) THEN CallNext(r)
    ELSE IF ~isLocalService(astroImageService) THEN CallNext(r)
    ELSE IF Href(r.url) = <<>> THEN CallNext(r)
    ELSE [r EXCEPT !.pc = "reading", !.reads = @ + 1]

\* new URL(filePath, 'file:')
FilePathURL(r) == NewURL(Href(r.url))

\* A faulty variant of AfterReadFile: the metadata is always computed again.
AfterReadFileAlwaysExtracts(r) ==
    IF ~OnDisk(FilePathURL(r).pathname) THEN Reject(r, "readFile")
    ELSE [r EXCEPT !.file = FileBytes(FilePathURL(r).pathname),
                   !.pc = "metadata", !.metadataCalls = @ + 1]

\* The file is read, or the read rejects.  With the metadata of the href the
\* service is asked to parse the URL; without it imageMetadata is asked.
AfterReadFile(r) ==
    IF ~OnDisk(FilePathURL(r).pathname) THEN Reject(r, "readFile")
    ELSE LET file == FileBytes(FilePathURL(r).pathname)
             meta == getOrigQueryParams(FilePathURL(r).searchParams)
         IN  IF ~meta.ok
             THEN [r EXCEPT !.file = file, !.pc = "metadata", !.metadataCalls = @ + 1]
             ELSE [r EXCEPT !.file = file, !.meta = meta,
                            !.pc = "parsing", !.parseCalls = @ + 1]

\* imageMetadata answers: no metadata goes to the next handler.
AfterImageMetadata(r) ==
    LET meta == imageMetadata(FilePathURL(r).pathname)
    IN  IF ~meta.ok THEN CallNext(r)
        ELSE [r EXCEPT !.meta = meta, !.pc = "parsing", !.parseCalls = @ + 1]

\* globalThis.astroImageService.parseURL(url)
ServiceParseURL(url) ==
    IF astroImageService = "local" THEN parseURL(url)
    ELSE [NotParsed EXCEPT !.called = TRUE]

\* parseURL answers: without a transform the file is sent as it is, with one
\* the service is asked to transform the file.
AfterParseURL(r) ==
    LET t == ServiceParseURL(r.url)
        data == FileBuffer(r.file)
        format == Str(<<r.meta.format>>)
    IN  IF t.defined
        THEN [r EXCEPT !.transform = t, !.data = data, !.format = format,
                       !.pc = "transforming", !.transformCalls = @ + 1]
        ELSE Respond([r EXCEPT !.transform = t], data, format)

\* transform answers with the encoded bytes and their format, or rejects.
AfterTransform(r) ==
    LET result == transform(r.file, r.transform)
    IN  IF processBufferThrows(r.file, result.format) THEN Reject(r, "transform")
        ELSE Respond(r, EncodedBuffer(result.data), result.format)

\* A faulty variant of Put: file is declared outside the handler, so a call
\* that reads a file gives it to the calls in flight.
PutShared(i, r) ==
    [j \in RequestIds |->
        IF j = i THEN r
        ELSE IF requests[j].pc \in {"metadata", "parsing", "transforming"} /\ requests[i].file # r.file
        THEN [requests[j] EXCEPT !.file = r.file]
        ELSE requests[j]]

\* The locals of a call are its own: a step of call i writes call i's.
Put(i, r) == [requests EXCEPT ![i] = r]

DevInit ==
    /\ astroImageService \in Services
    /\ requests = [i \in RequestIds |-> NoRequest]

\* A request comes in and the middleware runs up to its first await.
Request(i) ==
    /\ requests[i].pc = "idle"
    /\ \E url \in RequestURLs :
          requests' = Put(i, Middleware([NoRequest EXCEPT !.url = url]))
    /\ UNCHANGED astroImageService
    /\ UNCHANGED nonDevVars

ReadFileDone(i) ==
    /\ requests[i].pc = "reading"
    /\ requests' = Put(i, AfterReadFile(requests[i]))
    /\ UNCHANGED astroImageService
    /\ UNCHANGED nonDevVars

ImageMetadataDone(i) ==
    /\ requests[i].pc = "metadata"
    /\ requests' = Put(i, AfterImageMetadata(requests[i]))
    /\ UNCHANGED astroImageService
    /\ UNCHANGED nonDevVars

ParseURLDone(i) ==
    /\ requests[i].pc = "parsing"
    /\ requests' = Put(i, AfterParseURL(requests[i]))
    /\ UNCHANGED astroImageService
    /\ UNCHANGED nonDevVars

TransformDone(i) ==
    /\ requests[i].pc = "transforming"
    /\ requests' = Put(i, AfterTransform(requests[i]))
    /\ UNCHANGED astroImageService
    /\ UNCHANGED nonDevVars

\* ------------------------------------------------------ the check command

\* Most diagnostics the checker reports for one file.
MaxDiagnostics == 2

\* enum CheckResult
ExitWithSuccess == 0
ExitWithError == 1
Listen == 2

\* DiagnosticSeverity of the language server.
Severities == {"Error", "Warning", "Information", "Hint"}

\* The .astro files under the root.
AstroFiles == {"a.astro", "b.astro"}

\* What getDiagnostics can answer: the diagnostics of every open file, each
\* with its severity.
SeveritySeqs == UNION { [1..n -> Severities] : n \in 0..MaxDiagnostics }
DiagnosticResults == [AstroFiles -> SeveritySeqs]

NoDiagnostics == [f \in AstroFiles |-> <<>>]

NoBreakdown == [errors |-> 0, warnings |-> 0, hints |-> 0]

\* A faulty variant of Counted: the switch ends in a default that counts an
\* error.
CountedDefaultError(result, severity) ==
    CASE severity = "Warning" -> [result EXCEPT !.warnings = @ + 1]
      [] severity = "Hint" -> [result EXCEPT !.hints = @ + 1]
      [] OTHER -> [result EXCEPT !.errors = @ + 1]

\* The switch on d.severity: the counter of the severity goes up by one.
Counted(result, severity) ==
    CASE severity = "Error" -> [result EXCEPT !.errors = @ + 1]
      [] severity = "Warning" -> [result EXCEPT !.warnings = @ + 1]
      [] severity = "Hint" -> [result EXCEPT !.hints = @ + 1]
      [] OTHER -> result

\* diag.diagnostics.forEach
RECURSIVE ForEachDiagnostic(_, _)
ForEachDiagnostic(ds, result) ==
    IF ds = <<>> THEN result
    ELSE ForEachDiagnostic(Tail(ds), Counted(result, Head(ds)))

\* diagnostics.forEach
RECURSIVE ForEachFile(_, _, _)
ForEachFile(diagnostics, files, result) ==
    IF files = {} THEN result
    ELSE LET f == CHOOSE g \in files : TRUE
         IN  ForEachFile(diagnostics, files \ {f},
                         ForEachDiagnostic(diagnostics[f], result))

\* #breakDownDiagnostics: every diagnostic is printed and counted under its
\* severity; one that is no error, warning or hint is counted nowhere.
breakDownDiagnostics(diagnostics) ==
    ForEachFile(diagnostics, AstroFiles, NoBreakdown)

\* The CheckServer after its constructor: no pass, no file counted.
CheckIdle ==
    checker = [pc |-> "idle", filesCount |-> 0, documents |-> {},
               processExit |-> 0, diagnostics |-> NoDiagnostics,
               logged |-> NoBreakdown, returned |-> FALSE, result |-> 0,
               rejected |-> FALSE]

\* check(): #checkAllFiles(true) starts and asks for the content sync.
Check ==
    /\ checker.pc = "idle"
    /\ checker' = [checker EXCEPT !.pc = "syncing"]
    /\ UNCHANGED nonCheckVars

\* syncCli answers 1: the pass returns it at once.
SyncFails ==
    /\ checker.pc = "syncing"
    /\ checker' = [checker EXCEPT !.pc = "done", !.processExit = 1,
                                  !.returned = TRUE, !.result = 1]
    /\ UNCHANGED nonCheckVars

\* syncCli rejects: so does the pass.
SyncThrows ==
    /\ checker.pc = "syncing"
    /\ checker' = [checker EXCEPT !.pc = "done", !.rejected = TRUE]
    /\ UNCHANGED nonCheckVars

\* syncCli answers 0: the documents are opened.
SyncDone ==
    /\ checker.pc = "syncing"
    /\ checker' = [checker EXCEPT !.pc = "opening", !.processExit = 0]
    /\ UNCHANGED nonCheckVars

\* #openDocuments: every .astro file under the root is given to the checker
\* and counted; then the diagnostics are asked for.
OpenDocuments ==
    /\ checker.pc = "opening"
    /\ checker' = [checker EXCEPT !.pc = "diagnosing", !.documents = AstroFiles,
                                  !.filesCount = Cardinality(AstroFiles)]
    /\ UNCHANGED nonCheckVars

\* getDiagnostics answers: the diagnostics are broken down and logged, and
\* the pass returns an error when there is at least one error.
DiagnosticsDone ==
    /\ checker.pc = "diagnosing"
    /\ \E diagnostics \in DiagnosticResults :
          LET brokenDownDiagnostics == breakDownDiagnostics(diagnostics)
          IN  checker' = [checker EXCEPT
                  !.pc = "done", !.diagnostics = diagnostics,
                  !.logged = brokenDownDiagnostics, !.returned = TRUE,
                  !.result = IF brokenDownDiagnostics.errors > 0
                             THEN ExitWithError ELSE ExitWithSuccess]
    /\ UNCHANGED nonCheckVars

\* ------------------------------------------ the check command's watch mode

\* Most changes to the files under the root while the command runs.
MaxEvents == 2

\* The delay of the timeout that starts a check pass, in milliseconds.
DebounceDelay == 500

\* A file the watcher reports that is no .astro file.
NotesMd == "notes.md"

\* file.endsWith('.astro')
EndsWithAstro(file) == file \in AstroFiles

\* What sync() finds when it generates the content collection types.
ContentStates == {"generated", "no-content-dir", "error"}

\* sync(): 0 when the types are generated or there is no content directory;
\* an error while generating is caught and thrown again as an AstroError.
sync(content) ==
    IF content = "error" THEN [threw |-> TRUE, exit |-> 0]
    ELSE [threw |-> FALSE, exit |-> 0]

\* The syncCli the CheckServer is constructed with: the one of this package,
\* which runs sync(), or another function of its type, which answers 1 when
\* the types cannot be generated.
SyncClis == {"syncCli", "other"}

CallSyncCli(which, content) ==
    IF which = "syncCli" THEN sync(content)
    ELSE [threw |-> FALSE, exit |-> IF content = "error" THEN 1 ELSE 0]

\* What getDiagnostics answers in watch mode: nothing, or an error in every
\* file.
WatchDiagnostics == {NoDiagnostics, [f \in AstroFiles |-> <<"Error">>]}

\* A call of #checkAllFiles(openDocuments), just started: the content sync
\* is asked for.
NewPass(openDocuments, afterStop) ==
    [pc |-> "syncing", openDocuments |-> openDocuments, content |-> "",
     synced |-> FALSE, processExit |-> 0, threw |-> FALSE,
     opened |-> FALSE, diagnosticsRequests |-> 0,
     returned |-> FALSE, result |-> 0, filesLogged |-> 0,
     afterStop |-> afterStop]

\* A faulty variant of AfterSync: the exit code of the sync is not looked at.
AfterSyncIgnoresExit(pass, content, outcome) ==
    IF outcome.threw THEN [pass EXCEPT !.pc = "done", !.content = content, !.threw = TRUE]
    ELSE IF pass.openDocuments
    THEN [pass EXCEPT !.pc = "opening", !.content = content, !.synced = TRUE,
                      !.processExit = outcome.exit]
    ELSE [pass EXCEPT !.pc = "diagnosing", !.content = content, !.synced = TRUE,
                      !.processExit = outcome.exit, !.diagnosticsRequests = @ + 1]

\* #checkAllFiles after await this.#syncCli: a sync that rejects rejects the
\* pass, exit code 1 is returned at once, otherwise the documents are opened
\* (when asked for) or the diagnostics are asked for.
AfterSync(pass, content, outcome) ==
    IF outcome.threw THEN [pass EXCEPT !.pc = "done", !.content = content, !.threw = TRUE]
    ELSE IF outcome.exit = 1
    THEN [pass EXCEPT !.pc = "done", !.content = content, !.synced = TRUE,
                      !.processExit = 1, !.returned = TRUE, !.result = 1]
    ELSE IF pass.openDocuments
    THEN [pass EXCEPT !.pc = "opening", !.content = content, !.synced = TRUE,
                      !.processExit = outcome.exit]
    ELSE [pass EXCEPT !.pc = "diagnosing", !.content = content, !.synced = TRUE,
                      !.processExit = outcome.exit, !.diagnosticsRequests = @ + 1]

\* A faulty variant of checkForDiagnostics: the pending timeout is not
\* cleared.
checkForDiagnosticsNoClear(w) ==
    [w EXCEPT !.timers = @ \cup {[id |-> w.timeouts + 1, ms |-> DebounceDelay]},
              !.updateDiagnostics = w.timeouts + 1,
              !.timeouts = @ + 1,
              !.bursts = IF w.timers = {} THEN @ + 1 ELSE @]

\* #checkForDiagnostics: clearTimeout of the timeout it holds, then a new
\* timeout.  bursts counts the calls that found no timeout pending.
checkForDiagnostics(w) ==
    [w EXCEPT !.timers = { t \in @ : t.id # w.updateDiagnostics }
                         \cup {[id |-> w.timeouts + 1, ms |-> DebounceDelay]},
              !.updateDiagnostics = w.timeouts + 1,
              !.timeouts = @ + 1,
              !.bursts = IF w.timers = {} THEN @ + 1 ELSE @]

\* The listeners #watch attaches to the file watcher.
OnAdd(w, file) ==
    IF EndsWithAstro(file)
    THEN checkForDiagnostics([w EXCEPT !.documents = @ \cup {file},
                                       !.filesCount = @ + 1, !.handled = @ + 1])
    ELSE w

OnChange(w, file) ==
    IF EndsWithAstro(file)
    THEN checkForDiagnostics([w EXCEPT !.documents = @ \cup {file}, !.handled = @ + 1])
    ELSE w

OnUnlink(w, file) ==
    IF EndsWithAstro(file)
    THEN checkForDiagnostics([w EXCEPT !.documents = @ \ {file},
                                       !.filesCount = @ - 1, !.handled = @ + 1])
    ELSE w

On(w, kind, file) ==
    CASE kind = "add" -> OnAdd(w, file)
      [] kind = "change" -> OnChange(w, file)
      [] OTHER -> OnUnlink(w, file)

\* The changes the files can undergo, as the file watcher reports them.
Events ==
    { [kind |-> "add", file |-> f] : f \in AstroFiles \ disk }
    \cup { [kind |-> "change", file |-> f] : f \in disk \cup {NotesMd} }
    \cup { [kind |-> "unlink", file |-> f] : f \in disk }

DiskAfter(e) ==
    CASE e.kind = "add" -> disk \cup {e.file}
      [] e.kind = "unlink" -> disk \ {e.file}
      [] OTHER -> disk

\* The CheckServer after its constructor, one .astro file under the root.
WatchInitial(syncCli) ==
    [syncCli |-> syncCli, watchCalled |-> FALSE, watchReturned |-> FALSE,
     watchResult |-> 0, listening |-> FALSE, closing |-> FALSE, closed |-> FALSE,
     documents |-> {}, filesCount |-> 0,
     updateDiagnostics |-> 0, timeouts |-> 0, timers |-> {},
     events |-> 0, handled |-> 0, bursts |-> 0]

WatchIdle ==
    /\ disk = {CHOOSE f \in AstroFiles : TRUE}
    /\ watcher = WatchInitial("syncCli")
    /\ passes = <<>>

WatchInit ==
    /\ disk = {CHOOSE f \in AstroFiles : TRUE}
    /\ watcher \in { WatchInitial(c) : c \in SyncClis }
    /\ passes = <<>>

\* A faulty variant of WatchReady: #watch is called without awaiting the
\* first pass.
WatchReadyNoAwait == Len(passes) >= 1

\* await this.#checkAllFiles(true) in watch() has answered.
WatchReady == Len(passes) >= 1 /\ passes[1].pc = "done" /\ passes[1].returned

\* watch(): the first pass starts, with the documents to open.
Watch ==
    /\ ~watcher.watchCalled
    /\ watcher' = [watcher EXCEPT !.watchCalled = TRUE]
    /\ passes' = Append(passes, NewPass(TRUE, FALSE))
    /\ UNCHANGED disk
    /\ UNCHANGED nonWatchVars

\* syncCli answers pass p.
PassSyncDone(p) ==
    /\ passes[p].pc = "syncing"
    /\ \E content \in ContentStates :
          passes' = [passes EXCEPT
              ![p] = AfterSync(@, content, CallSyncCli(watcher.syncCli, content))]
    /\ UNCHANGED <<disk, watcher>>
    /\ UNCHANGED nonWatchVars

\* #openDocuments of pass p: the .astro files under the root are given to
\* the checker and counted; then the diagnostics are asked for.
PassOpenDocuments(p) ==
    /\ passes[p].pc = "opening"
    /\ watcher' = [watcher EXCEPT !.documents = @ \cup disk,
                                  !.filesCount = Cardinality(disk)]
    /\ passes' = [passes EXCEPT ![p].pc = "diagnosing", ![p].opened = TRUE,
                                ![p].diagnosticsRequests = @ + 1]
    /\ UNCHANGED disk
    /\ UNCHANGED nonWatchVars

\* getDiagnostics answers pass p: the result is logged with the file count
\* and the pass returns.
PassDiagnosticsDone(p) ==
    /\ passes[p].pc = "diagnosing"
    /\ \E diagnostics \in WatchDiagnostics :
          passes' = [passes EXCEPT
              ![p].pc = "done", ![p].returned = TRUE,
              ![p].filesLogged = watcher.filesCount,
              ![p].result = IF breakDownDiagnostics(diagnostics).errors > 0
                            THEN ExitWithError ELSE ExitWithSuccess]
    /\ UNCHANGED <<disk, watcher>>
    /\ UNCHANGED nonWatchVars

\* watch() after its first pass: #watch attaches the listeners and watch
\* returns Listen.
WatchListen ==
    /\ watcher.watchCalled
    /\ ~watcher.watchReturned
    /\ ~watcher.listening
    /\ WatchReady
    /\ watcher' = [watcher EXCEPT !.listening = TRUE,
                                  !.watchReturned = TRUE,
                                  !.watchResult = Listen]
    /\ UNCHANGED <<disk, passes>>
    /\ UNCHANGED nonWatchVars

\* A file changes while no listener is attached.
UnwatchedEvent ==
    /\ watcher.watchCalled
    /\ ~watcher.listening
    /\ watcher.events < MaxEvents
    /\ \E e \in Events : disk' = DiskAfter(e)
    /\ watcher' = [watcher EXCEPT !.events = @ + 1]
    /\ UNCHANGED passes
    /\ UNCHANGED nonWatchVars

\* A file changes and the watcher calls the listener of the event.
WatcherEvent ==
    /\ watcher.listening
    /\ watcher.events < MaxEvents
    /\ \E e \in Events :
          /\ disk' = DiskAfter(e)
          /\ watcher' = On([watcher EXCEPT !.events = @ + 1], e.kind, e.file)
    /\ UNCHANGED passes
    /\ UNCHANGED nonWatchVars

\* The timeout of #checkForDiagnostics is due: #checkAllFiles(false) starts.
TimerFires ==
    /\ \E t \in watcher.timers :
          watcher' = [watcher EXCEPT !.timers = @ \ {t}]
    /\ passes' = Append(passes, NewPass(FALSE, watcher.closed))
    /\ UNCHANGED disk
    /\ UNCHANGED nonWatchVars

\* stop(): the server is asked to close, which closes the file watcher and
\* removes its listeners.
Stop ==
    /\ watcher.watchReturned
    /\ ~watcher.closing
    /\ watcher' = [watcher EXCEPT !.closing = TRUE, !.listening = FALSE]
    /\ UNCHANGED <<disk, passes>>
    /\ UNCHANGED nonWatchVars

\* this.#server.close() has answered: stop() is over.
StopDone ==
    /\ watcher.closing
    /\ ~watcher.closed
    /\ watcher' = [watcher EXCEPT !.closed = TRUE]
    /\ UNCHANGED <<disk, passes>>
    /\ UNCHANGED nonWatchVars

\* -------------------------------------------------------- specifications

BuildIdle ==
    /\ watchMode = FALSE
    /\ sourcemap = FALSE
    /\ phase = "build"
    /\ pc = [m \in ModuleIds |-> "idle"]
    /\ exports = [m \in ModuleIds |-> NoExport]
    /\ emitted = {}
    /\ buildFailed = FALSE
    /\ chunk = <<>>
    /\ rendered = NotRendered
    /\ rerendered = NotRendered

ServiceIdle == transformed = NotTransformed

ImageIdle ==
    /\ image = NoImage
    /\ logs = <<>>
    /\ serving = TRUE
    /\ parsed = NotParsed

DevIdle ==
    /\ astroImageService = "local"
    /\ requests = [i \in RequestIds |-> NoRequest]

\* A build: the modules load, the bundler generates, renderChunk runs.
InitBuild == BuildInit /\ ServiceIdle /\ ImageIdle /\ DevIdle /\ CheckIdle /\ WatchIdle

NextBuild ==
    \/ \E m \in ModuleIds : LoadStart(m)
    \/ \E m \in ModuleIds : LoadMeta(m)
    \/ \E m \in ModuleIds : LoadEmit(m)
    \/ \E m \in ModuleIds : LoadReadFails(m)
    \/ BeginGenerate
    \/ AddPiece
    \/ RenderChunk
    \/ RenderAgain

SpecBuild == InitBuild /\ [][NextBuild]_vars

\* Calls of the local service's transform.
InitService == BuildIdle /\ ServiceIdle /\ ImageIdle /\ DevIdle /\ CheckIdle /\ WatchIdle

NextService == Transform

SpecService == InitService /\ [][NextService]_vars

\* Pages rendering images in dev, and the dev server parsing their URLs.
InitImage == BuildIdle /\ ServiceIdle /\ ImageIdle /\ DevIdle /\ CheckIdle /\ WatchIdle

NextImage ==
    \/ GetImage
    \/ ParseURL
    \/ PageDone

SpecImage == InitImage /\ [][NextImage]_vars

\* Requests to the dev server, their awaits answered in any order.
InitDev == BuildIdle /\ ServiceIdle /\ ImageIdle /\ DevInit /\ CheckIdle
           /\ WatchIdle

NextDev ==
    \/ \E i \in RequestIds : Request(i)
    \/ \E i \in RequestIds : ReadFileDone(i)
    \/ \E i \in RequestIds : ImageMetadataDone(i)
    \/ \E i \in RequestIds : ParseURLDone(i)
    \/ \E i \in RequestIds : TransformDone(i)

SpecDev == InitDev /\ [][NextDev]_vars

\* One pass of the check command.
InitCheck == BuildIdle /\ ServiceIdle /\ ImageIdle /\ DevIdle /\ CheckIdle /\ WatchIdle

NextCheck ==
    \/ Check
    \/ SyncFails
    \/ SyncThrows
    \/ SyncDone
    \/ OpenDocuments
    \/ DiagnosticsDone

SpecCheck == InitCheck /\ [][NextCheck]_vars

\* The check command in watch mode: the first pass, the file watcher's
\* events, the timeouts and the passes they start, and stop().
InitWatch == BuildIdle /\ ServiceIdle /\ ImageIdle /\ DevIdle /\ CheckIdle /\ WatchInit

NextWatch ==
    \/ Watch
    \/ \E p \in 1..Len(passes) : PassSyncDone(p)
    \/ \E p \in 1..Len(passes) : PassOpenDocuments(p)
    \/ \E p \in 1..Len(passes) : PassDiagnosticsDone(p)
    \/ WatchListen
    \/ UnwatchedEvent
    \/ WatcherEvent
    \/ TimerFires
    \/ Stop
    \/ StopDone

SpecWatch == InitWatch /\ [][NextWatch]_vars

\* The same, with the event loop running every timeout that is due.
SpecWatchFair == SpecWatch /\ WF_vars(TimerFires)

\* ----------------------------------------------------- the build's claims

\* A placeholder token starts somewhere in the text.
HasToken(text) == \E i \in 1..Len(text) : HeadAt(text, i)

\* The text of the token an edit replaced: the marker and hash and, when the
\* edit is longer than those, "_", the postfix and "__".
EditText(e) ==
    TokenText(e.hash)
    \o (IF e.length = 8 THEN <<>> ELSE <<"_">> \o e.postfix \o <<"_", "_">>)

\* The j-th stretch of code outside the edits, j = 1 .. number of edits + 1.
Outside(code, edits, j) ==
    SubSeq(code,
           IF j = 1 THEN 1 ELSE edits[j - 1].index + edits[j - 1].length,
           IF j = Len(edits) + 1 THEN Len(code) ELSE edits[j].index - 1)

\* The code with every edit's token replaced by base + file name + postfix.
Resolved(code, edits) ==
    Joined([k \in 1..(2 * Len(edits) + 1) |->
              IF k % 2 = 1 THEN Outside(code, edits, (k + 1) \div 2)
              ELSE Base \o getFileName(edits[k \div 2].hash) \o edits[k \div 2].postfix])

C3_BuildLoadEmitsAndEmbedsToken ==
    /\ \A m \in ModuleIds :
          (~watchMode /\ pc[m] = "done" /\ IsImageId(m) /\ imageMetadata(m).ok) =>
             LET mine == { a \in emitted : a.module = m }
             IN  /\ Cardinality(mine) = 1
                 /\ \A a \in mine :
                       /\ a.source = FileBytes(m)
                       /\ a.type = "asset"
                       /\ exports[m] =
                             [default |-> TRUE,
                              src |-> <<"_", "_", Marker, "_", "_", a.handle, "_", "_">>,
                              width |-> imageMetadata(m).width,
                              height |-> imageMetadata(m).height,
                              format |-> imageMetadata(m).format]
    /\ \A a, b \in emitted : a.handle = b.handle => a = b

\* C3's case: a build in which both images have been loaded.
C3_Witness ==
    /\ ~watchMode
    /\ pc[PenguinPng] = "done"
    /\ pc[MyImgJpgJpg] = "done"
    /\ Cardinality(emitted) = 2

\* The path a file URL's text names: what stands between "//" and "?".
PathOf(src) ==
    SubSeq(src, 3, IF Places(src, "?") = {} THEN Len(src) ELSE Min(Places(src, "?")) - 1)

\* The src carries the original width, height and format as query
\* parameters.
CarriesOriginal(src, meta) ==
    LET params == SearchParams(src)
    IN  /\ Has(params, "origWidth") /\ IsDigits(Get(params, "origWidth"))
        /\ parseInt(Get(params, "origWidth")) = meta.width
        /\ Has(params, "origHeight") /\ IsDigits(Get(params, "origHeight"))
        /\ parseInt(Get(params, "origHeight")) = meta.height
        /\ Has(params, "origFormat")
        /\ Get(params, "origFormat") = <<meta.format>>

\* A watch pass has returned from load() for image module m.
WatchLoaded(m) ==
    watchMode /\ pc[m] = "done" /\ IsImageId(m) /\ imageMetadata(m).ok

\* C4, as claimed: in a watch pass the exported src is a request URL to the
\* dev endpoint carrying the original width, height and format; no asset is
\* emitted and src is no placeholder token.
C4_AsClaimed ==
    \A m \in ModuleIds :
        WatchLoaded(m) =>
            /\ exports[m].default
            /\ exports[m].src # <<>>
            /\ exports[m].src[1] = ImageEndpoint
            /\ CarriesOriginal(exports[m].src, imageMetadata(m))
            /\ emitted = {}
            /\ ~HasToken(exports[m].src)

\* C4, amended: in a watch pass the exported src is the module file's own
\* URL (file: scheme, the module's path) carrying the original width, height
\* and format as query parameters; no asset is emitted and src is no
\* placeholder token.
C4_WatchLoadEmbedsFileURL ==
    \A m \in ModuleIds :
        WatchLoaded(m) =>
            /\ exports[m].default
            /\ Len(exports[m].src) > 2
            /\ exports[m].src[1] = "file:"
            /\ PathOf(exports[m].src) = m
            /\ Len(SearchParams(exports[m].src)) = 3
            /\ CarriesOriginal(exports[m].src, imageMetadata(m))
            /\ exports[m].width = imageMetadata(m).width
            /\ exports[m].height = imageMetadata(m).height
            /\ exports[m].format = imageMetadata(m).format
            /\ emitted = {}
            /\ ~HasToken(exports[m].src)

\* C4's case: a watch pass in which both images have been loaded.
C4_Witness == WatchLoaded(PenguinPng) /\ WatchLoaded(MyImgJpgJpg)

\* C5: within one build every load() has returned before renderChunk first
\* runs; every token renderChunk resolves is the src of a loaded module whose
\* asset is emitted; and once renderChunk has run no load() goes on, no asset
\* is emitted and no token is made.
C5_LoadsBeforeFinalize ==
    /\ [](rendered.state # "none" =>
            /\ \A m \in ModuleIds : pc[m] = "done"
            /\ rendered.state # "threw"
            /\ \A k \in 1..Len(rendered.edits) :
                  /\ rendered.edits[k].hash \in EmittedHandles
                  /\ \E m \in ModuleIds :
                        /\ exports[m].src = TokenText(rendered.edits[k].hash)
                        /\ AssetOf(rendered.edits[k].hash).module = m)
    /\ [][rendered.state # "none" =>
            (pc' = pc /\ exports' = exports /\ emitted' = emitted)]_vars

\* C5's case: renderChunk has resolved the tokens of two loaded modules.
C5_Witness ==
    /\ rendered.state = "code"
    /\ \E j, k \in 1..Len(rendered.edits) : rendered.edits[j].hash # rendered.edits[k].hash

\* C6: renderChunk on a chunk that holds no placeholder token returns null:
\* no rewritten code, no source map.
C6_NoTokenLeavesChunkUntouched ==
    (rendered.state # "none" /\ ~HasToken(ChunkCode)) =>
        /\ rendered.state = "null"
        /\ rendered.code = <<>>
        /\ rendered.map = "null"

\* C6's case: source maps are on and a chunk of near-tokens was rendered.
C6_Witness ==
    /\ sourcemap
    /\ rendered.state = "null"
    /\ \E i \in 1..Len(ChunkCode) : ChunkCode[i] = Marker

\* C7: renderChunk applied to the code its first run left changes nothing.
C7_SecondRewriteIsNoOp ==
    rerendered.state # "none" =>
        /\ rerendered.state = "null"
        /\ CodeAfter(CodeAfter(ChunkCode, rendered), rerendered)
              = CodeAfter(ChunkCode, rendered)

\* C7's case: the first run rewrote tokens, the second has run.
C7_Witness ==
    /\ rendered.state = "code"
    /\ Len(rendered.edits) = 2
    /\ rerendered.state # "none"

\* C8: when metadata extraction fails for a module whose id has an image
\* extension, load() returns nothing: no export, no asset emitted, no token
\* made, the build not failed.
C8_MetadataFailurePassesThrough ==
    [][\A m \in ModuleIds :
          (pc[m] = "meta" /\ pc'[m] # "meta" /\ ~imageMetadata(m).ok) =>
             /\ IsImageId(m)
             /\ pc'[m] = "done"
             /\ exports'[m] = NoExport
             /\ exports' = exports
             /\ emitted' = emitted
             /\ buildFailed' = buildFailed]_vars

\* C8's case: the broken image's load() has returned and the build went on.
C8_Witness ==
    /\ pc[BrokenGif] = "done"
    /\ exports[BrokenGif] = NoExport
    /\ phase = "generate"
    /\ ~buildFailed

\* --------------------------------------------------- the service's claims

IsSet(v) == v # Undefined

\* C1: transform() issues no resize when width and height are both unset,
\* one resize carrying only the height when only height is set, and one
\* resize carrying only the width when width is set, with or without height;
\* no resize carries both.
C1_ResizePolicy ==
    transformed.called =>
        LET t == transformed.transform
            operations == transformed.result.data.operations
        IN  /\ (~IsSet(t.width) /\ ~IsSet(t.height)) => operations = <<>>
            /\ (~IsSet(t.width) /\ IsSet(t.height)) =>
                  /\ Len(operations) = 1
                  /\ operations[1].type = "resize"
                  /\ operations[1].height = t.height
                  /\ ~IsSet(operations[1].width)
            /\ IsSet(t.width) =>
                  /\ Len(operations) = 1
                  /\ operations[1].type = "resize"
                  /\ operations[1].width = t.width
                  /\ ~IsSet(operations[1].height)
            /\ \A i \in 1..Len(operations) :
                  ~(IsSet(operations[i].width) /\ IsSet(operations[i].height))

\* C1's case: a transform with both width and height, differing, was run.
C1_Witness ==
    /\ transformed.called
    /\ IsSet(transformed.transform.width)
    /\ IsSet(transformed.transform.height)
    /\ transformed.transform.width # transformed.transform.height
    /\ Len(transformed.result.data.operations) = 1

\* ----------------------------------------------------- the image's claims

Contains(text, phrase) == \E i \in 1..Len(text) : text[i] = phrase

\* C9: a remote image with neither width nor height is rejected with a
\* message containing "width and height are required", one with width but no
\* height with another message, containing "height is required"; either way
\* exactly one error is logged, the image is left out of the output and the
\* dev server keeps serving.
C9_RemoteImageValidation ==
    [][(~image.called /\ image'.called /\ image'.options.src.remote
          /\ ~IsSet(image'.options.height)) =>
          LET message == IF IsSet(image'.options.width)
                         THEN "height is required"
                         ELSE "width and height are required"
              other == IF IsSet(image'.options.width)
                       THEN "width and height are required"
                       ELSE "height is required"
          IN  /\ Len(logs') = Len(logs) + 1
              /\ SubSeq(logs', 1, Len(logs)) = logs
              /\ logs'[Len(logs')].level = "error"
              /\ Contains(logs'[Len(logs')].message, message)
              /\ ~Contains(logs'[Len(logs')].message, other)
              /\ image'.omitted
              /\ image'.src = <<>>
              /\ serving /\ serving']_vars

\* C9's case: both faulty remote images have been rendered and logged.
C9_Witness ==
    /\ Len(logs) = 2
    /\ Contains(logs[1].message, "height is required")
    /\ Contains(logs[2].message, "width and height are required")
    /\ image.called /\ image.omitted /\ image.options.src.remote
    /\ serving

\* C10: parseURL(getURL(t)) gives back t's src path, width, height, format
\* and quality, width and height as integers; transforms equal in those
\* fields get the same URL.
C10_CodecRoundTrip ==
    /\ (parsed.called /\ ~image.options.src.remote) =>
          /\ parsed.defined
          /\ parsed.src = image.options.src.src
          /\ parsed.width = image.options.width
          /\ parsed.height = image.options.height
          /\ parsed.format = image.options.format
          /\ parsed.quality = image.options.quality
          /\ parsed.width.tag \in {"number", "undefined"}
          /\ parsed.height.tag \in {"number", "undefined"}
    /\ (image.called /\ ~image.omitted) =>
          \A other \in ImageOptions :
             (/\ other.src.src = image.options.src.src
              /\ other.src.remote = image.options.src.remote
              /\ other.width = image.options.width
              /\ other.height = image.options.height
              /\ other.format = image.options.format
              /\ other.quality = image.options.quality) => getURL(other) = image.src

\* C10's case: a URL whose source path itself holds a query, with a width of
\* its own, a preset quality and a format, has been parsed.
C10_Witness ==
    /\ parsed.called /\ parsed.defined
    /\ Contains(parsed.src, "?")
    /\ parsed.width = Num(2)
    /\ parsed.height = Undefined
    /\ parsed.quality = Str(<<"low">>)
    /\ parsed.format = Str(<<"png">>)

\* ------------------------------------------------ the dev responder's claims

\* The value of the response's first header of the name, "" when none.
Header(r, name) ==
    LET at == { k \in 1..Len(r.headers) : r.headers[k][1] = name }
    IN  IF at = {} THEN <<>> ELSE r.headers[Min(at)][2]

Responded(r) == r.pc = "done" /\ r.responses > 0

\* The content types that say the format: image/<format>, or the MIME type
\* registered for it.
TypesOf(format) ==
    {<<"image/">> \o TemplateText(format)}
    \cup (IF format.tag = "string" /\ Len(format.s) = 1 /\ format.s[1] \in DOMAIN MimeTypes
          THEN {MimeTypes[format.s[1]]} ELSE {})

\* C11, as the claim states it: a response to a request the service parsed a
\* transform from has the content type of the transform result's format and
\* the result's bytes as its body.
C11_AsClaimed ==
    \A i \in RequestIds :
        LET r == requests[i]
            result == transform(r.file, r.transform)
        IN  Responded(r) /\ r.transform.defined =>
                /\ Header(r, "Content-Type") \in TypesOf(result.format)
                /\ r.body = EncodedBuffer(result.data)

\* C12, as the claim states it: when parseURL yields no transform, transform
\* is not called, the body is the file's bytes and the content type says the
\* format of the source's metadata.
C12_AsClaimed ==
    \A i \in RequestIds :
        LET r == requests[i]
        IN  Responded(r) /\ ~r.transform.defined =>
                /\ r.transformCalls = 0
                /\ r.body = FileBuffer(FileBytes(FilePathURL(r).pathname))
                /\ Header(r, "Content-Type") \in TypesOf(Str(<<r.meta.format>>))

\* The request is for the endpoint and its query has no href.
NoHref(url) == StartsWithImage(url) /\ ~Has(SearchParams(url), "href")

\* C13: a request to the image endpoint without href goes to the next
\* handler, once; no file is read, imageMetadata and the service are not
\* called, and no header and no body is written.
C13_MissingHrefGoesToNext ==
    \A i \in RequestIds :
        LET r == requests[i]
        IN  r.pc # "idle" /\ NoHref(r.url) =>
                /\ r.pc = "done"
                /\ r.nextCalls = 1
                /\ r.reads = 0
                /\ r.metadataCalls = 0
                /\ r.parseCalls = 0
                /\ r.transformCalls = 0
                /\ r.headers = <<>>
                /\ r.body = NoBuffer
                /\ r.responses = 0

C13_Witness ==
    /\ astroImageService = "local"
    /\ \E i \in RequestIds :
          /\ requests[i].url = <<ImageEndpoint, "?", "w", "=", "3">>
          /\ requests[i].pc = "done"
          /\ requests[i].nextCalls = 1

\* The href's own query carries the original width, height and format.
Recoverable(url) ==
    LET params == FilePathURL([url |-> url]).searchParams
    IN  \A name \in {"origWidth", "origHeight", "origFormat"} :
            Has(params, name) /\ Get(params, name) # <<>>

\* C14: imageMetadata is called only for a request whose href does not carry
\* the original width, height and format; when it finds no metadata either,
\* the request goes to the next handler and no response is written.
C14_MetadataResolution ==
    \A i \in RequestIds :
        LET r == requests[i]
        IN  /\ r.metadataCalls > 0 => r.metadataCalls = 1 /\ ~Recoverable(r.url)
            /\ r.reads > 0 /\ Recoverable(r.url) /\ r.pc = "done" => r.metadataCalls = 0
            /\ ( /\ r.pc = "done"
                 /\ r.file # ""
                 /\ ~Recoverable(r.url)
                 /\ ~imageMetadata(FilePathURL(r).pathname).ok )
               => /\ r.nextCalls = 1
                  /\ r.responses = 0
                  /\ r.headers = <<>>
                  /\ r.body = NoBuffer

C14_Witness ==
    \E i, j \in RequestIds :
        /\ requests[i].url = ImageURL(<<ImageEndpoint>>, BrokenGif, <<>>)
        /\ requests[i].pc = "done"
        /\ requests[i].metadataCalls = 1
        /\ requests[i].nextCalls = 1
        /\ Recoverable(requests[j].url)
        /\ Responded(requests[j])
        /\ requests[j].metadataCalls = 0

\* C15, as the claim states it: a request whose file cannot be read goes to
\* the next handler.
C15_AsClaimed ==
    \A i \in RequestIds :
        requests[i].pc = "done" /\ requests[i].threw = "readFile"
            => requests[i].nextCalls = 1

\* C16, as the claim states it: a request whose transform throws ends as a
\* response with a 5xx status.
C16_AsClaimed ==
    \A i \in RequestIds :
        requests[i].pc = "done" /\ requests[i].threw = "transform"
            => /\ requests[i].responses = 1
               /\ requests[i].statusCode \in 500..599

\* What a call of the middleware did, one continuation after the other.
Step(r) ==
    CASE r.pc = "reading" -> AfterReadFile(r)
      [] r.pc = "metadata" -> AfterImageMetadata(r)
      [] r.pc = "parsing" -> AfterParseURL(r)
      [] r.pc = "transforming" -> AfterTransform(r)
      [] OTHER -> r

RECURSIVE Run(_)
Run(r) == IF r.pc \in {"idle", "done"} THEN r ELSE Run(Step(r))

\* The request served with no other request in flight.
ServedAlone(url) == Run(Middleware([NoRequest EXCEPT !.url = url]))

\* What the client and the next handler see of a call.
Outcome(r) ==
    [statusCode |-> r.statusCode, headers |-> r.headers, body |-> r.body,
     responses |-> r.responses, nextCalls |-> r.nextCalls, threw |-> r.threw]

\* C17: however the requests in flight interleave, a request ends as it
\* would have ended served alone (same content type, same body, same
\* hand-over to the next handler), and a step of one request changes neither
\* another request's locals nor the service.
C17_RequestsDoNotInterfere ==
    /\ [](\A i \in RequestIds :
            requests[i].pc = "done"
                => Outcome(requests[i]) = Outcome(ServedAlone(requests[i].url)))
    /\ [][ /\ astroImageService' = astroImageService
           /\ \A i, j \in RequestIds :
                 i # j /\ requests'[i] # requests[i] => requests'[j] = requests[j] ]_vars

\* Two transforms of the same source are in flight together: the second
\* request is answered while the first still waits for its transform.
C17_Witness ==
    /\ MaxRequests >= 2
    /\ requests[1].pc = "transforming"
    /\ requests[1].url =
          ImageURL(<<ImageEndpoint>>, WatchSrc(PenguinPng, imageMetadata(PenguinPng)),
                   <<<<"w", <<"2">>>>, <<"f", <<"webp">>>>>>)
    /\ Responded(requests[2])
    /\ requests[2].url =
          ImageURL(<<ImageEndpoint>>, WatchSrc(PenguinPng, imageMetadata(PenguinPng)),
                   <<<<"h", <<"3">>>>, <<"f", <<"png">>>>>>)
    /\ requests[2].body.out.format = Str(<<"png">>)

\* C19: a response the responder writes has status 200 and the header
\* Cache-Control: max-age=360000, and is written once.
C19_ResponsesAre200AndCached ==
    \A i \in RequestIds :
        requests[i].responses > 0 =>
            /\ requests[i].responses = 1
            /\ requests[i].statusCode = 200
            /\ Header(requests[i], "Cache-Control") = <<"max-age=360000">>
            /\ Header(requests[i], "Content-Type") # <<>>

C19_Witness ==
    /\ astroImageService = "localNoTransform"
    /\ \E i \in RequestIds :
          /\ Responded(requests[i])
          /\ requests[i].body.kind = "file"
          /\ Len(requests[i].headers) = 2

\* C28, as the claim states it: every request the middleware is done with
\* was either handed to the next handler once or answered once, never both
\* and never neither; a request for another path, or one made while the
\* service is not local, was handed on with no file read and no header set.
C28_AsClaimed ==
    \A i \in RequestIds :
        LET r == requests[i]
        IN  /\ r.pc = "done" =>
                \/ r.nextCalls = 1 /\ r.responses = 0
                \/ r.nextCalls = 0 /\ r.responses = 1
            /\ r.pc # "idle" /\ (~StartsWithImage(r.url) \/ astroImageService = "external") =>
                /\ r.pc = "done"
                /\ r.nextCalls = 1
                /\ r.reads = 0
                /\ r.headers = <<>>

\* ------------------------------------------------ the local service's format

\* C18: transform() with no format encodes as webp and reports "webp"; with
\* a format it encodes as and reports the format asked for.
C18_OutputFormat ==
    transformed.called =>
        LET t == transformed.transform
            result == transformed.result
        IN  /\ t.format = Undefined
                => result.format = Str(<<"webp">>) /\ result.data.format = Str(<<"webp">>)
            /\ t.format # Undefined
                => result.format = t.format /\ result.data.format = t.format

C18_Witness ==
    /\ transformed.called
    /\ transformed.transform.format = Undefined
    /\ transformed.result.format = Str(<<"webp">>)

\* ------------------------------------------------ the check command's claims

\* How many of the diagnostics have the severity.
CountOf(diagnostics, severity) ==
    Cardinality({ fk \in AstroFiles \X (1..MaxDiagnostics) :
                    /\ fk[2] <= Len(diagnostics[fk[1]])
                    /\ diagnostics[fk[1]][fk[2]] = severity })

\* C20: after a content sync that succeeded, check() returns ExitWithError
\* when at least one diagnostic is an error and ExitWithSuccess when none
\* is, whatever the warnings, hints and other diagnostics; every error,
\* warning and hint is counted once.
C20_CheckResult ==
    checker.returned /\ checker.processExit = 0 =>
        /\ checker.result \in {ExitWithError, ExitWithSuccess}
        /\ checker.result = ExitWithError <=> CountOf(checker.diagnostics, "Error") >= 1
        /\ checker.logged = [errors |-> CountOf(checker.diagnostics, "Error"),
                             warnings |-> CountOf(checker.diagnostics, "Warning"),
                             hints |-> CountOf(checker.diagnostics, "Hint")]

C20_Witness ==
    /\ checker.returned
    /\ checker.processExit = 0
    /\ checker.result = ExitWithSuccess
    /\ CountOf(checker.diagnostics, "Warning") >= 1
    /\ CountOf(checker.diagnostics, "Information") >= 1
    /\ CountOf(checker.diagnostics, "Hint") >= 1

\* ------------------------------------------------ the watch mode's claims

\* The passes a timeout started.
StartedByTimer == IF passes = <<>> THEN 0 ELSE Len(passes) - 1

\* C21: the listeners of the file watcher are attached, and an event is
\* handled, only after the first pass of watch() has run to its end; watch()
\* then returns Listen, whatever the pass returned.
C21_FirstPassBeforeListeners ==
    /\ watcher.listening \/ watcher.handled > 0 \/ watcher.watchReturned
          => /\ Len(passes) >= 1
             /\ passes[1].pc = "done"
             /\ passes[1].returned
             /\ passes[1].openDocuments
    /\ watcher.watchReturned => watcher.watchResult = Listen
    /\ watcher.listening => watcher.watchReturned

C21_Witness ==
    /\ watcher.watchReturned
    /\ watcher.watchResult = Listen
    /\ watcher.handled > 0
    /\ passes[1].result = ExitWithError

\* C22: in every pass the content sync comes first; the documents are
\* opened and the diagnostics asked for only after the sync has answered,
\* and not when it answered 1: then the pass has returned an error at once
\* and asked for no diagnostics.
C22_SyncFirst ==
    \A p \in 1..Len(passes) :
        LET q == passes[p]
        IN  /\ q.pc = "syncing" => ~q.synced /\ ~q.opened /\ q.diagnosticsRequests = 0
            /\ q.opened \/ q.diagnosticsRequests > 0 \/ q.pc \in {"opening", "diagnosing"}
                  => q.synced /\ q.processExit # 1
            /\ q.opened => q.openDocuments
            /\ q.diagnosticsRequests <= 1
            /\ q.synced /\ q.processExit = 1
                  => /\ q.pc = "done"
                     /\ q.returned
                     /\ q.result = ExitWithError
                     /\ q.diagnosticsRequests = 0
                     /\ ~q.opened

C22_Witness ==
    /\ Len(passes) >= 2
    /\ passes[1].opened
    /\ passes[1].diagnosticsRequests = 1
    /\ passes[1].returned
    /\ passes[2].synced
    /\ passes[2].processExit = 1
    /\ passes[2].returned

C24_AsClaimed ==
    watcher.syncCli = "syncCli" =>
        \A p \in 1..Len(passes) :
            LET q == passes[p]
            IN  q.pc # "syncing" =>
                    /\ q.content = "error" => q.synced /\ ~q.threw /\ q.processExit = 1
                    /\ q.content # "error" => q.synced /\ ~q.threw /\ q.processExit = 0

\* C25, as the claim states it: no pass starts once stop() is over.
C25_AsClaimed ==
    \A p \in 1..Len(passes) : ~passes[p].afterStop

\* C26, as the claim states it: at most one pass is under way.
C26_AsClaimed ==
    Cardinality({ p \in 1..Len(passes) : passes[p].pc # "done" }) <= 1

\* C27, as the claim states it: once watch() has returned, the file count
\* is the number of documents open in the checker, and is not negative.
C27_AsClaimed ==
    watcher.watchReturned =>
        /\ watcher.filesCount = Cardinality(watcher.documents)
        /\ watcher.filesCount >= 0

====
